---- MODULE Spec2Model ----
(***************************************************************************)
(* DigiFarmer: the combined crop and soil recommender                      *)
(* (backend/models/combined_crop_soil_recommender.py) and the two FastAPI  *)
(* front ends that serve it (backend/main.py and backend/api/main.py).     *)
(*                                                                         *)
(* One request is in flight at a time.  Numeric measurements are kept in   *)
(* hundredths (6.8 is 680), probabilities in units of 1/ProbTotal and      *)
(* adjusted scores in units of 1/(BoostDen * ProbTotal), so that the       *)
(* multiplication by 1.5 is exact.                                         *)
(***************************************************************************)
EXTENDS Integers, Sequences, FiniteSets, TLC

\* ------------------------------------------------------------------ bounds
VocabSize == 3          \* crops in the crop classifier's vocabulary
ProbTotal == 5          \* probability mass, in units, that a distribution sums to
MaxTopN == 3            \* largest top_n a recommend request carries

\* --------------------------------------------------------- Python values
NoneStr == "<None>"                       \* Python None where a string is expected
Num(x) == [num |-> TRUE, v |-> x]         \* an int or float, in hundredths
Str == [num |-> FALSE, v |-> 0]           \* a JSON string used as a value
EmptyMap == [k \in {} |-> Num(0)]
NoneVal == [t |-> "None", d |-> EmptyMap] \* Python None where an object is expected
Dict(d) == [t |-> "dict", d |-> d]
ListVal == [t |-> "list", d |-> EmptyMap] \* a non-empty JSON array
Val(whole, tenths) == whole * 100 + tenths * 10

\* `if x:` on a parsed JSON value
Truthy(x) ==
    CASE x.t = "None" -> FALSE
      [] x.t = "dict" -> DOMAIN x.d # {}
      [] OTHER -> TRUE

\* --------------------------------------------------------------- catalog
soil_classes ==
    <<"Alluvial Soil", "Black Soil", "Cinder Soil", "Clay Soil",
      "Laterite Soil", "Peat Soil", "Red Soil", "Yellow Soil">>

SoilClassSet == {soil_classes[i] : i \in 1..Len(soil_classes)}

soil_crop_mapping ==
    [s \in SoilClassSet |->
        CASE s = "Alluvial Soil" -> <<"rice", "wheat", "sugarcane", "cotton", "jute", "maize", "pulses">>
          [] s = "Black Soil"    -> <<"cotton", "sugarcane", "wheat", "jowar", "sunflower", "groundnut", "pulses">>
          [] s = "Cinder Soil"   -> <<"coffee", "tea", "cardamom", "pepper", "coconut", "cashew">>
          [] s = "Clay Soil"     -> <<"rice", "wheat", "barley", "oats", "potatoes", "onions">>
          [] s = "Laterite Soil" -> <<"cashew", "coconut", "rubber", "tea", "coffee", "cardamom">>
          [] s = "Peat Soil"     -> <<"rice", "vegetables", "fruits", "flowers", "herbs">>
          [] s = "Red Soil"      -> <<"groundnut", "potato", "rice", "ragi", "tobacco", "oilseeds", "pulses">>
          [] s = "Yellow Soil"   -> <<"wheat", "barley", "potato", "rice", "maize", "pulses">>]

Range(n1, n2, p1, p2, k1, k2, t1, t2, h1, h2, ph1, ph2, r1, r2) ==
    [N |-> <<n1, n2>>, P |-> <<p1, p2>>, K |-> <<k1, k2>>,
     temperature |-> <<t1, t2>>, humidity |-> <<h1, h2>>,
     pH |-> <<ph1, ph2>>, rainfall |-> <<r1, r2>>]

soil_environmental_ranges ==
    [s \in SoilClassSet |->
        CASE s = "Alluvial Soil" ->
                Range(Val(50,0), Val(100,0), Val(30,0), Val(60,0), Val(30,0), Val(60,0),
                      Val(20,0), Val(35,0), Val(60,0), Val(90,0), Val(6,0), Val(8,0), Val(100,0), Val(300,0))
          [] s = "Black Soil" ->
                Range(Val(40,0), Val(80,0), Val(20,0), Val(50,0), Val(40,0), Val(80,0),
                      Val(25,0), Val(40,0), Val(50,0), Val(80,0), Val(7,0), Val(8,5), Val(50,0), Val(200,0))
          [] s = "Cinder Soil" ->
                Range(Val(30,0), Val(60,0), Val(15,0), Val(40,0), Val(20,0), Val(50,0),
                      Val(15,0), Val(30,0), Val(70,0), Val(95,0), Val(5,5), Val(7,0), Val(200,0), Val(400,0))
          [] s = "Clay Soil" ->
                Range(Val(60,0), Val(100,0), Val(40,0), Val(70,0), Val(50,0), Val(90,0),
                      Val(15,0), Val(30,0), Val(60,0), Val(85,0), Val(6,5), Val(8,0), Val(100,0), Val(250,0))
          [] s = "Laterite Soil" ->
                Range(Val(20,0), Val(50,0), Val(10,0), Val(30,0), Val(15,0), Val(40,0),
                      Val(20,0), Val(35,0), Val(60,0), Val(90,0), Val(5,0), Val(6,5), Val(150,0), Val(300,0))
          [] s = "Peat Soil" ->
                Range(Val(80,0), Val(120,0), Val(30,0), Val(60,0), Val(20,0), Val(50,0),
                      Val(10,0), Val(25,0), Val(70,0), Val(95,0), Val(4,0), Val(6,0), Val(200,0), Val(500,0))
          [] s = "Red Soil" ->
                Range(Val(30,0), Val(70,0), Val(20,0), Val(50,0), Val(25,0), Val(60,0),
                      Val(20,0), Val(35,0), Val(50,0), Val(80,0), Val(5,5), Val(7,5), Val(50,0), Val(200,0))
          [] s = "Yellow Soil" ->
                Range(Val(40,0), Val(80,0), Val(25,0), Val(55,0), Val(30,0), Val(70,0),
                      Val(15,0), Val(30,0), Val(60,0), Val(85,0), Val(6,0), Val(7,5), Val(100,0), Val(300,0))]

\* dict.get(soil_type, []) and dict.get(soil_type, {})
SoilCropsGet(soil) ==
    IF soil \in DOMAIN soil_crop_mapping THEN soil_crop_mapping[soil] ELSE <<>>

RangesGet(soil) ==
    IF soil \in DOMAIN soil_environmental_ranges
    THEN soil_environmental_ranges[soil] ELSE EmptyMap

\* the order in which recommend_crops reads the parameters
FeatureOrder == <<"N", "P", "K", "temperature", "humidity", "pH", "rainfall">>

FeatureKeys == {FeatureOrder[i] : i \in 1..Len(FeatureOrder)}

\* ------------------------------------------------- parameter resolution
Midpoint(min_val, max_val) == (min_val + max_val) \div 2

get_environmental_parameters_minimum(soil_type, custom_params) ==
    IF Truthy(custom_params) THEN custom_params
    ELSE LET ranges == RangesGet(soil_type)
         IN  Dict([param \in DOMAIN ranges |-> Num(ranges[param][1])])

get_environmental_parameters(soil_type, custom_params) ==
    IF Truthy(custom_params) THEN custom_params
    ELSE LET ranges == RangesGet(soil_type)
         IN  Dict([param \in DOMAIN ranges |->
                      Num(Midpoint(ranges[param][1], ranges[param][2]))])

\* env_params['N'] ... env_params['rainfall'] raises on a value that is not a
\* mapping or that lacks one of the keys
CropInputRaises(env_params) ==
    \/ env_params.t # "dict"
    \/ ~(FeatureKeys \subseteq DOMAIN env_params.d)

CropInputSwapped(env_params) ==
    [i \in 1..Len(FeatureOrder) |->
        env_params.d[FeatureOrder[IF i = 2 THEN 3 ELSE IF i = 3 THEN 2 ELSE i]]]

CropInput(env_params) ==
    [i \in 1..Len(FeatureOrder) |-> env_params.d[FeatureOrder[i]]]

\* ------------------------------------------------------ crop classifier
\* crop_encoder.classes_: the classifier's vocabulary, in label order
CropVocabulary == <<"coffee", "mango", "rice", "wheat", "yam">>

crop_names == SubSeq(CropVocabulary, 1, VocabSize)

RECURSIVE SumTo(_, _)
SumTo(p, n) == IF n = 0 THEN 0 ELSE p[n] + SumTo(p, n - 1)

\* what predict_proba(...)[0] can return: one probability per crop, summing to 1
Distributions ==
    {p \in [1..VocabSize -> 0..ProbTotal] : SumTo(p, VocabSize) = ProbTotal}

\* ---------------------------------------------------------------- ranking
BoostNum == 3           \* soil_boost 1.5 = BoostNum / BoostDen
BoostDen == 2

InSeq(x, seq) == \E i \in 1..Len(seq) : seq[i] = x

ScoredAlwaysBoosted(soil_type, probs) ==
    LET soil_specific_crops == SoilCropsGet(soil_type)
    IN  [i \in 1..Len(crop_names) |->
            [crop |-> crop_names[i],
             score |-> probs[i] * BoostNum,
             soil_suitable |-> InSeq(crop_names[i], soil_specific_crops),
             original_probability |-> probs[i]]]

\* the loop of recommend_crops: one entry per crop, in vocabulary order
Scored(soil_type, probs) ==
    LET soil_specific_crops == SoilCropsGet(soil_type)
    IN  [i \in 1..Len(crop_names) |->
            [crop |-> crop_names[i],
             score |-> probs[i] * (IF InSeq(crop_names[i], soil_specific_crops)
                                   THEN BoostNum ELSE BoostDen),
             soil_suitable |-> InSeq(crop_names[i], soil_specific_crops),
             original_probability |-> probs[i]]]

InsertDescendingTiesReversed(sorted, e) ==
    LET k == Cardinality({i \in 1..Len(sorted) : sorted[i].score > e.score})
    IN  SubSeq(sorted, 1, k) \o <<e>> \o SubSeq(sorted, k + 1, Len(sorted))

\* list.sort(key=score, reverse=True): stable, equal scores keep their order
InsertDescending(sorted, e) ==
    LET k == Cardinality({i \in 1..Len(sorted) : sorted[i].score >= e.score})
    IN  SubSeq(sorted, 1, k) \o <<e>> \o SubSeq(sorted, k + 1, Len(sorted))

InsertAscending(sorted, e) ==
    LET k == Cardinality({i \in 1..Len(sorted) : sorted[i].score <= e.score})
    IN  SubSeq(sorted, 1, k) \o <<e>> \o SubSeq(sorted, k + 1, Len(sorted))

RECURSIVE SortAscending(_)
SortAscending(recs) ==
    IF Len(recs) = 0 THEN <<>>
    ELSE InsertAscending(SortAscending(SubSeq(recs, 1, Len(recs) - 1)), recs[Len(recs)])

RECURSIVE SortByScore(_)
SortByScore(recs) ==
    IF Len(recs) = 0 THEN <<>>
    ELSE InsertDescending(SortByScore(SubSeq(recs, 1, Len(recs) - 1)), recs[Len(recs)])

\* recommendations[:top_n]
Slice(recs, n) ==
    LET stop == IF n >= 0 THEN (IF n < Len(recs) THEN n ELSE Len(recs))
                ELSE (IF Len(recs) + n > 0 THEN Len(recs) + n ELSE 0)
    IN  SubSeq(recs, 1, stop)

\* lines 170-190 of recommend_crops
Rank(soil_type, probs, top_n) == Slice(SortByScore(Scored(soil_type, probs)), top_n)

\* ------------------------------------------------------- request inputs
Apps == {"backend", "api"}      \* backend/main.py and backend/api/main.py
ContentTypes == {"image/jpeg", "text/plain", NoneStr}
StartsWithImage(ct) == ct = "image/jpeg"
SoilInputs == SoilClassSet \cup {"Sandy Soil"}
DefaultTopN == 5
TopNValues == (0 - 1)..MaxTopN
ConfidenceValues == {25000, 87654}      \* percent, in thousandths

RawAbsent == "<absent>"
RawEmpty == ""
RawMalformed == "{bad"
RawEmptyDict == "{}"
RawNull == "null"
RawList == "[1]"
RawPartial == "{\"N\": 75}"
RawFull == "{\"N\": 75, \"P\": 45, \"K\": 50, \"temperature\": 28, \"humidity\": 75, \"pH\": 6.8, \"rainfall\": 180}"
RawNonNumeric == "{\"N\": \"high\", \"P\": 45, \"K\": 50, \"temperature\": 28, \"humidity\": 75, \"pH\": 6.8, \"rainfall\": 180}"

RawParams ==
    {RawAbsent, RawEmpty, RawMalformed, RawEmptyDict, RawNull, RawList,
     RawPartial, RawFull, RawNonNumeric}

FullOverride ==
    [N |-> Num(Val(75,0)), P |-> Num(Val(45,0)), K |-> Num(Val(50,0)),
     temperature |-> Num(Val(28,0)), humidity |-> Num(Val(75,0)),
     pH |-> Num(Val(6,8)), rainfall |-> Num(Val(180,0))]

\* json.loads on the strings above: ok is FALSE where it raises JSONDecodeError
json_loads(raw) ==
    CASE raw = RawEmptyDict  -> [ok |-> TRUE, val |-> Dict(EmptyMap)]
      [] raw = RawNull       -> [ok |-> TRUE, val |-> NoneVal]
      [] raw = RawList       -> [ok |-> TRUE, val |-> ListVal]
      [] raw = RawPartial    -> [ok |-> TRUE, val |-> Dict([k \in {"N"} |-> Num(Val(75,0))])]
      [] raw = RawFull       -> [ok |-> TRUE, val |-> Dict(FullOverride)]
      [] raw = RawNonNumeric -> [ok |-> TRUE, val |-> Dict([FullOverride EXCEPT !.N = Str])]
      [] OTHER               -> [ok |-> FALSE, val |-> NoneVal]

\* `if environmental_params:` on the form field
RawTruthy(raw) == raw # RawAbsent /\ raw # RawEmpty

\* round(confidence, 2): thousandths to hundredths, ties to even
Round2(c) ==
    LET q == c \div 10
        r == c % 10
    IN  IF r > 5 \/ (r = 5 /\ q % 2 = 1) THEN q + 1 ELSE q

\* ------------------------------------------------------------------ state
VARIABLES
    models_loaded,          \* the module-level `recommender` is not None
    pc,                     \* where the request in flight stands
    app, op,                \* which front end and which endpoint serves it
    content_type, too_large,\* the uploaded file: its type, and len(content) > 10MB
    environmental_params,   \* the raw form field
    top_n,
    custom_params,          \* the handler's parsed overrides
    tmp_file_path,          \* the handler's local; NoneStr while unassigned
    tmp_exists,             \* the staged file is on disk
    soil_type, soil_confidence,
    gcr_env_params,         \* env_params of get_comprehensive_recommendation
    env_params,             \* env_params of recommend_crops
    crop_input,             \* the feature vector handed to predict_proba
    crop_probabilities,
    recommendations,        \* what recommend_crops returns
    result,                 \* what get_comprehensive_recommendation returns
    exc,                    \* the exception propagating in the handler
    response,
    calls,                  \* history: the steps this request has gone through
    catalog_crops,          \* the shared recommender's soil_crop_mapping
    catalog_ranges,         \* the shared recommender's soil_environmental_ranges
    creq                    \* the calls running concurrently on the shared recommender

vars ==
    <<models_loaded, pc, app, op, content_type, too_large, environmental_params,
      top_n, custom_params, tmp_file_path, tmp_exists, soil_type, soil_confidence,
      gcr_env_params, env_params, crop_input, crop_probabilities, recommendations,
      result, exc, response, calls, catalog_crops, catalog_ranges, creq>>

shared == <<catalog_crops, catalog_ranges, creq>>
request == <<app, op, content_type, too_large, environmental_params, top_n>>
upload == <<tmp_file_path, tmp_exists>>
soil == <<soil_type, soil_confidence>>
ranking == <<env_params, crop_input, crop_probabilities, recommendations>>

TmpPath == "/tmp/upload.jpg"

NoResult ==
    [keys |-> {}, error |-> "", soil_type |-> NoneStr, soil_confidence |-> 0,
     environmental_parameters |-> NoneVal, recommendations |-> <<>>,
     soil_specific_crops |-> <<>>]

NoResponse ==
    [status |-> 0, success |-> FALSE, detail |-> "", soil_type |-> NoneStr,
     confidence |-> 0, recommendations |-> <<>>]

\* an HTTPException leaving the handler
HttpError(status, detail) ==
    [status |-> status, success |-> FALSE, detail |-> detail, soil_type |-> NoneStr,
     confidence |-> 0, recommendations |-> <<>>]

Fresh ==
    /\ pc = "idle"
    /\ app = NoneStr /\ op = NoneStr
    /\ content_type = NoneStr /\ too_large = FALSE
    /\ environmental_params = RawAbsent
    /\ top_n = DefaultTopN
    /\ custom_params = NoneVal
    /\ tmp_file_path = NoneStr /\ tmp_exists = FALSE
    /\ soil_type = NoneStr /\ soil_confidence = 0
    /\ gcr_env_params = NoneVal /\ env_params = NoneVal
    /\ crop_input = <<>> /\ crop_probabilities = <<>>
    /\ recommendations = <<>>
    /\ result = NoResult
    /\ exc = NoneStr
    /\ response = NoResponse
    /\ calls = {}

\* ------------------------------------- calls on the shared recommender
NumRequests == 2        \* calls in flight at once on the one recommender

Requests == 1..NumRequests

\* the locals of a call that has not started
NoCall ==
    [pc |-> "idle", kind |-> NoneStr, overlapped |-> FALSE,
     soil_type |-> NoneStr, soil_confidence |-> 0, custom_params |-> NoneVal,
     top_n |-> DefaultTopN, gcr_env_params |-> NoneVal, env_params |-> NoneVal,
     crop_input |-> <<>>, crop_probabilities |-> <<>>, raised |-> FALSE,
     recommendations |-> <<>>, result |-> NoResult]

SharedFresh ==
    /\ catalog_crops = soil_crop_mapping
    /\ catalog_ranges = soil_environmental_ranges
    /\ creq = [r \in Requests |-> NoCall]

Init == models_loaded \in BOOLEAN /\ Fresh /\ SharedFresh

\* ------------------------------------------------------ handler entries
\* `if not recommender: raise HTTPException(500)`, before the try block
Enter(next) ==
    IF models_loaded
    THEN pc' = next /\ UNCHANGED response
    ELSE pc' = "responded" /\ response' = HttpError(500, "Models not loaded")

\* POST /api/classify.  backend/main.py never reads the content type.
classify_soil_endpoint ==
    /\ pc = "idle"
    /\ \E a \in Apps, ct \in ContentTypes :
          /\ a = "backend" => ct = "image/jpeg"
          /\ app' = a /\ op' = "classify" /\ content_type' = ct
          /\ Enter(IF a = "api" THEN "validate_upload" ELSE "stage")
    /\ UNCHANGED <<shared, models_loaded, too_large, environmental_params, top_n, custom_params,
                   upload, soil, gcr_env_params, ranking, result, exc, calls>>

\* POST /api/recommend
recommend_crops_endpoint ==
    /\ pc = "idle"
    /\ \E a \in Apps, s \in SoilInputs, raw \in RawParams, n \in TopNValues :
          /\ app' = a /\ op' = "recommend"
          /\ soil_type' = s /\ environmental_params' = raw /\ top_n' = n
          /\ Enter(IF a = "api" THEN "validate_soil" ELSE "parse")
    /\ UNCHANGED <<shared, models_loaded, content_type, too_large, custom_params, upload,
                   soil_confidence, gcr_env_params, ranking, result, exc, calls>>

\* POST /api/complete-analysis.  backend/main.py reads neither the content
\* type nor the size; top_n is left at get_comprehensive_recommendation's default.
complete_analysis_endpoint ==
    /\ pc = "idle"
    /\ \E a \in Apps, ct \in ContentTypes, big \in BOOLEAN, raw \in RawParams :
          /\ a = "backend" => (ct = "image/jpeg" /\ ~big)
          /\ app' = a /\ op' = "complete"
          /\ content_type' = ct /\ too_large' = big /\ environmental_params' = raw
          /\ Enter(IF a = "api" THEN "validate_upload" ELSE "stage")
    /\ UNCHANGED <<shared, models_loaded, top_n, custom_params, upload, soil, gcr_env_params,
                   ranking, result, exc, calls>>

\* api/main.py: image.content_type.startswith('image/') and the 10MB limit
ValidateUpload ==
    /\ pc = "validate_upload"
    /\ pc' = IF content_type # NoneStr /\ StartsWithImage(content_type)
                /\ ~(op = "complete" /\ too_large)
             THEN "stage" ELSE "except"
    /\ exc' = CASE content_type = NoneStr -> "AttributeError"
                [] ~StartsWithImage(content_type) -> "HTTPException400"
                [] op = "complete" /\ too_large -> "HTTPException400"
                [] OTHER -> exc
    /\ UNCHANGED <<shared, models_loaded, request, custom_params, upload, soil, gcr_env_params,
                   ranking, result, response, calls>>

\* api/main.py: `if soil_type not in recommender.soil_classes`
ValidateSoilType ==
    /\ pc = "validate_soil"
    /\ IF InSeq(soil_type, soil_classes)
       THEN pc' = "parse" /\ UNCHANGED exc
       ELSE pc' = "except" /\ exc' = "HTTPException400"
    /\ UNCHANGED <<shared, models_loaded, request, custom_params, upload, soil, gcr_env_params,
                   ranking, result, response, calls>>

\* tempfile.NamedTemporaryFile(delete=False): the upload is written to disk
StageUpload ==
    /\ pc = "stage"
    /\ tmp_exists' = TRUE /\ tmp_file_path' = TmpPath
    /\ calls' = calls \cup {"stage"}
    /\ pc' = IF op = "classify" THEN "classify_soil" ELSE "parse"
    /\ UNCHANGED <<shared, models_loaded, request, custom_params, soil, gcr_env_params,
                   ranking, result, exc, response>>

\* the exception, if any, that parsing the form field raises inside the try
ParseRaises(parsed) ==
    CASE ~parsed.ok ->
            IF app = "api" THEN "HTTPException400" ELSE "JSONDecodeError"
      [] app = "api" /\ op = "complete" /\ Truthy(parsed.val) /\ parsed.val.t # "dict" ->
            "AttributeError"
      [] app = "api" /\ op = "complete" /\ Truthy(parsed.val)
         /\ (\E k \in DOMAIN parsed.val.d : ~parsed.val.d[k].num) ->
            "HTTPException400"
      [] OTHER -> NoneStr

\* json.loads(environmental_params), and in api/main.py's complete_analysis
\* the isinstance check of every value
ParseParams ==
    /\ pc = "parse"
    /\ IF ~RawTruthy(environmental_params)
       THEN /\ pc' = IF op = "recommend" THEN "recommend_crops" ELSE "classify_soil"
            /\ UNCHANGED <<custom_params, exc>>
       ELSE LET parsed == json_loads(environmental_params)
                raised == ParseRaises(parsed)
            IN  /\ custom_params' = parsed.val
                /\ exc' = raised
                /\ pc' = IF raised # NoneStr THEN "except"
                         ELSE IF op = "recommend" THEN "recommend_crops"
                         ELSE "classify_soil"
    /\ UNCHANGED <<shared, models_loaded, request, upload, soil, gcr_env_params, ranking,
                   result, response, calls>>

\* ---------------------------------------------------------- recommender
SoilOutcomes ==
    {[soil_type |-> NoneStr, confidence |-> 0]}
    \cup {[soil_type |-> soil_classes[i], confidence |-> c] :
             i \in 1..Len(soil_classes), c \in ConfidenceValues}

\* classify_soil: the image is loaded and the soil model run; any exception
\* is caught and reported as (None, 0.0)
classify_soil ==
    /\ pc = "classify_soil"
    /\ \E outcome \in SoilOutcomes :
          /\ ~tmp_exists => outcome.soil_type = NoneStr
          /\ soil_type' = outcome.soil_type
          /\ soil_confidence' = outcome.confidence
    /\ calls' = calls \cup {"classify_soil"}
    /\ pc' = IF op = "classify" THEN "unlink" ELSE "gcr_check"
    /\ UNCHANGED <<shared, models_loaded, request, custom_params, upload, gcr_env_params,
                   ranking, result, exc, response>>

\* the dictionary returned when soil_type is None
gcr_error_result ==
    [NoResult EXCEPT !.keys = {"error", "soil_type", "soil_confidence", "recommendations"},
                     !.error = "Failed to classify soil type"]

gcr_check_without_early_return ==
    /\ pc = "gcr_check"
    /\ gcr_env_params' = get_environmental_parameters(soil_type, custom_params)
    /\ calls' = calls \cup {"resolve"}
    /\ pc' = "recommend_crops"
    /\ UNCHANGED <<shared, models_loaded, request, custom_params, upload, soil, ranking,
                   result, exc, response>>

\* get_comprehensive_recommendation after classify_soil returns: the early
\* return on failure, else the resolution of the parameters
gcr_check ==
    /\ pc = "gcr_check"
    /\ IF soil_type = NoneStr
       THEN /\ result' = gcr_error_result
            /\ pc' = "unlink"
            /\ UNCHANGED <<gcr_env_params, calls>>
       ELSE /\ gcr_env_params' = get_environmental_parameters(soil_type, custom_params)
            /\ calls' = calls \cup {"resolve"}
            /\ pc' = "recommend_crops"
            /\ UNCHANGED result
    /\ UNCHANGED <<shared, models_loaded, request, custom_params, upload, soil, ranking,
                   exc, response>>

\* where recommend_crops returns to
AfterRecommend == IF op = "recommend" THEN "respond" ELSE "gcr_return"

recommend_crops_ignoring_passed_params ==
    /\ pc = "recommend_crops"
    /\ LET resolved == get_environmental_parameters(soil_type, NoneVal)
       IN  /\ env_params' = resolved
           /\ IF CropInputRaises(resolved)
              THEN /\ recommendations' = <<>>
                   /\ calls' = calls \cup {"resolve", "crop_input", "rc_except"}
                   /\ pc' = AfterRecommend
                   /\ UNCHANGED crop_input
              ELSE /\ crop_input' = CropInput(resolved)
                   /\ calls' = calls \cup {"resolve", "crop_input"}
                   /\ pc' = "predict_proba"
                   /\ UNCHANGED recommendations
    /\ UNCHANGED <<shared, models_loaded, request, custom_params, upload, soil, gcr_env_params,
                   crop_probabilities, result, exc, response>>

\* recommend_crops up to the call of the crop model: resolution and the
\* feature vector; an exception here is caught and [] returned
recommend_crops ==
    /\ pc = "recommend_crops"
    /\ LET passed == IF op = "recommend" THEN custom_params ELSE gcr_env_params
           resolved == get_environmental_parameters(soil_type, passed)
       IN  /\ env_params' = resolved
           /\ IF CropInputRaises(resolved)
              THEN /\ recommendations' = <<>>
                   /\ calls' = calls \cup {"resolve", "crop_input", "rc_except"}
                   /\ pc' = AfterRecommend
                   /\ UNCHANGED crop_input
              ELSE /\ crop_input' = CropInput(resolved)
                   /\ calls' = calls \cup {"resolve", "crop_input"}
                   /\ pc' = "predict_proba"
                   /\ UNCHANGED recommendations
    /\ UNCHANGED <<shared, models_loaded, request, custom_params, upload, soil, gcr_env_params,
                   crop_probabilities, result, exc, response>>

\* crop_model.predict_proba(crop_input)[0]: a distribution, or an exception
\* (always one when a feature is not a number), caught and [] returned
predict_proba ==
    /\ pc = "predict_proba"
    /\ \/ /\ recommendations' = <<>>
          /\ calls' = calls \cup {"predict_proba", "predict_raised", "rc_except"}
          /\ pc' = AfterRecommend
          /\ UNCHANGED crop_probabilities
       \/ /\ \A i \in 1..Len(crop_input) : crop_input[i].num
          /\ \E probs \in Distributions : crop_probabilities' = probs
          /\ calls' = calls \cup {"predict_proba"}
          /\ pc' = "rank"
          /\ UNCHANGED recommendations
    /\ UNCHANGED <<shared, models_loaded, request, custom_params, upload, soil, gcr_env_params,
                   env_params, crop_input, result, exc, response>>

\* the rest of recommend_crops: boost, sort, truncate
rank_crops ==
    /\ pc = "rank"
    /\ recommendations' = Rank(soil_type, crop_probabilities, top_n)
    /\ calls' = calls \cup {"rank"}
    /\ pc' = AfterRecommend
    /\ UNCHANGED <<shared, models_loaded, request, custom_params, upload, soil, gcr_env_params,
                   env_params, crop_input, crop_probabilities, result, exc, response>>

\* the report get_comprehensive_recommendation assembles
gcr_report(st, conf, gcr_env, recs) ==
    [keys |-> {"soil_type", "soil_confidence", "environmental_parameters",
               "recommendations", "soil_specific_crops"},
     error |-> "", soil_type |-> st, soil_confidence |-> conf,
     environmental_parameters |-> gcr_env, recommendations |-> recs,
     soil_specific_crops |-> SoilCropsGet(st)]

gcr_return ==
    /\ pc = "gcr_return"
    /\ result' = gcr_report(soil_type, soil_confidence, gcr_env_params, recommendations)
    /\ pc' = "unlink"
    /\ UNCHANGED <<shared, models_loaded, request, custom_params, upload, soil, gcr_env_params,
                   ranking, exc, response, calls>>

\* ---------------------------------------------------- handler epilogues
\* os.unlink(tmp_file_path) on the normal path
Unlink ==
    /\ pc = "unlink"
    /\ tmp_exists' = FALSE
    /\ calls' = calls \cup {"unlink"}
    /\ pc' = "respond"
    /\ UNCHANGED <<shared, models_loaded, request, custom_params, tmp_file_path, soil,
                   gcr_env_params, ranking, result, exc, response>>

\* the HTTPException the handler raises after the call, if any
RespondRaises ==
    CASE op = "classify" /\ soil_type = NoneStr -> "HTTPException500"
      [] op = "complete" /\ app = "api" /\ "error" \in result.keys -> "HTTPException500"
      [] OTHER -> NoneStr

\* the body the handler returns: {"success": True, ...}
SuccessBody ==
    CASE op = "classify" ->
            [status |-> 200, success |-> TRUE, detail |-> "", soil_type |-> soil_type,
             confidence |-> Round2(soil_confidence), recommendations |-> <<>>]
      [] op = "recommend" ->
            [status |-> 200, success |-> TRUE, detail |-> "", soil_type |-> soil_type,
             confidence |-> 0, recommendations |-> recommendations]
      [] OTHER ->
            [status |-> 200, success |-> TRUE, detail |-> result.error,
             soil_type |-> result.soil_type, confidence |-> result.soil_confidence,
             recommendations |-> result.recommendations]

Respond ==
    /\ pc = "respond"
    /\ IF RespondRaises # NoneStr
       THEN exc' = RespondRaises /\ pc' = "except" /\ UNCHANGED response
       ELSE /\ response' = SuccessBody
            /\ pc' = IF op = "complete" /\ app = "api" THEN "finally" ELSE "responded"
            /\ UNCHANGED exc
    /\ UNCHANGED <<shared, models_loaded, request, custom_params, upload, soil, gcr_env_params,
                   ranking, result, calls>>

\* the handlers' except clauses.  Only api/main.py's complete_analysis lets an
\* HTTPException through; only api/main.py's classify_soil unlinks here.
Except ==
    /\ pc = "except"
    /\ response' = HttpError(IF app = "api" /\ op = "complete" /\ exc = "HTTPException400"
                             THEN 400 ELSE 500, exc)
    /\ tmp_exists' = IF app = "api" /\ op = "classify" /\ tmp_file_path # NoneStr
                     THEN FALSE ELSE tmp_exists
    /\ pc' = IF app = "api" /\ op = "complete" THEN "finally" ELSE "responded"
    /\ UNCHANGED <<shared, models_loaded, request, custom_params, tmp_file_path, soil,
                   gcr_env_params, ranking, result, exc, calls>>

\* api/main.py's complete_analysis: the finally block
Finally ==
    /\ pc = "finally"
    /\ tmp_exists' = IF tmp_file_path # NoneStr /\ tmp_exists THEN FALSE ELSE tmp_exists
    /\ pc' = "responded"
    /\ UNCHANGED <<shared, models_loaded, request, custom_params, tmp_file_path, soil,
                   gcr_env_params, ranking, result, exc, response, calls>>

\* the response has gone out; the next request starts from scratch
Deliver ==
    /\ pc = "responded"
    /\ pc' = "idle"
    /\ app' = NoneStr /\ op' = NoneStr
    /\ content_type' = NoneStr /\ too_large' = FALSE
    /\ environmental_params' = RawAbsent
    /\ top_n' = DefaultTopN
    /\ custom_params' = NoneVal
    /\ tmp_file_path' = NoneStr /\ tmp_exists' = FALSE
    /\ soil_type' = NoneStr /\ soil_confidence' = 0
    /\ gcr_env_params' = NoneVal /\ env_params' = NoneVal
    /\ crop_input' = <<>> /\ crop_probabilities' = <<>>
    /\ recommendations' = <<>>
    /\ result' = NoResult
    /\ exc' = NoneStr
    /\ response' = NoResponse
    /\ calls' = {}
    /\ UNCHANGED <<shared, models_loaded>>

Next ==
    \/ classify_soil_endpoint
    \/ recommend_crops_endpoint
    \/ complete_analysis_endpoint
    \/ ValidateUpload
    \/ ValidateSoilType
    \/ StageUpload
    \/ ParseParams
    \/ classify_soil
    \/ gcr_check
    \/ recommend_crops
    \/ predict_proba
    \/ rank_crops
    \/ gcr_return
    \/ Unlink
    \/ Respond
    \/ Except
    \/ Finally
    \/ Deliver

Spec == Init /\ [][Next]_vars

\* ------------------------------------------------------- stalled models
\* soil_model.predict and crop_model.predict_proba are called without a
\* timeout: a call that never returns leaves the request where it is
model_call_stalls ==
    /\ pc \in {"classify_soil", "predict_proba"}
    /\ pc' = "stalled"
    /\ calls' = calls \cup {"stalled"}
    /\ UNCHANGED <<shared, models_loaded, request, custom_params, upload, soil, gcr_env_params,
                   ranking, result, exc, response>>

LiveNext == Next \/ model_call_stalls

\* every step of a handler that can be taken is taken
LiveSpec == Init /\ [][LiveNext]_vars /\ WF_vars(LiveNext)

\* ------------------------------------ concurrent calls, one recommender
\* The front ends hold one module-level recommender; every call reads the
\* catalog through it.  Each call below keeps its locals in creq[r] and may
\* be interleaved with the others at every step.
ConcSoilInputs == {"Peat Soil", "Sandy Soil"}
ConcOverrides == {NoneVal, Dict(FullOverride)}
ConcSoilOutcomes ==
    {[soil_type |-> NoneStr, confidence |-> 0],
     [soil_type |-> "Peat Soil", confidence |-> 87654]}
ConcDistributions ==
    {p \in Distributions :
        p[2] + p[3] = ProbTotal /\ p[2] >= p[3] /\ p[2] - p[3] <= 2}
ConcTopN == {2}

single == <<models_loaded, pc, request, custom_params, upload, soil, gcr_env_params,
            ranking, result, exc, response, calls>>

\* self.soil_crop_mapping.get(soil_type, []) and
\* self.soil_environmental_ranges.get(soil_type, {}) on the shared object
SharedCropsGet(st) ==
    IF st \in DOMAIN catalog_crops THEN catalog_crops[st] ELSE <<>>

SharedRangesGet(st) ==
    IF st \in DOMAIN catalog_ranges THEN catalog_ranges[st] ELSE EmptyMap

\* get_environmental_parameters, reading the shared ranges
shared_get_environmental_parameters(st, custom) ==
    IF Truthy(custom) THEN custom
    ELSE LET ranges == SharedRangesGet(st)
         IN  Dict([param \in DOMAIN ranges |->
                      Num(Midpoint(ranges[param][1], ranges[param][2]))])

\* the loop, sort and slice of recommend_crops, reading the shared crop lists
shared_rank(st, probs, n) ==
    LET soil_specific_crops == SharedCropsGet(st)
        scored == [i \in 1..Len(crop_names) |->
                     [crop |-> crop_names[i],
                      score |-> probs[i] * (IF InSeq(crop_names[i], soil_specific_crops)
                                            THEN BoostNum ELSE BoostDen),
                      soil_suitable |-> InSeq(crop_names[i], soil_specific_crops),
                      original_probability |-> probs[i]]]
    IN  Slice(SortByScore(scored), n)

InFlight(r) == creq[r].pc \notin {"idle", "done"}

\* a caller enters recommend_crops or get_comprehensive_recommendation
conc_call(r) ==
    /\ creq[r].pc = "idle"
    /\ \E kind \in {"recommend", "complete"}, s \in ConcSoilInputs,
          custom \in ConcOverrides, n \in ConcTopN :
          /\ kind = "complete" => (s = "Peat Soil" /\ n = 2)
          /\ creq' = [creq EXCEPT ![r] =
                 [@ EXCEPT !.pc = IF kind = "recommend" THEN "recommend_crops"
                                  ELSE "classify_soil",
                           !.kind = kind,
                           !.overlapped = \E o \in Requests \ {r} : InFlight(o),
                           !.soil_type = IF kind = "recommend" THEN s ELSE NoneStr,
                           !.custom_params = custom,
                           !.top_n = IF kind = "recommend" THEN n ELSE DefaultTopN]]
    /\ UNCHANGED <<single, catalog_crops, catalog_ranges>>

conc_classify_soil(r) ==
    /\ creq[r].pc = "classify_soil"
    /\ \E outcome \in ConcSoilOutcomes :
          creq' = [creq EXCEPT ![r] =
                     [creq[r] EXCEPT !.pc = "gcr_check",
                               !.soil_type = outcome.soil_type,
                               !.soil_confidence = outcome.confidence]]
    /\ UNCHANGED <<single, catalog_crops, catalog_ranges>>

conc_gcr_check(r) ==
    /\ creq[r].pc = "gcr_check"
    /\ creq' = [creq EXCEPT ![r] =
           IF creq[r].soil_type = NoneStr
           THEN [creq[r] EXCEPT !.pc = "done", !.result = gcr_error_result]
           ELSE [creq[r] EXCEPT !.pc = "recommend_crops",
                          !.gcr_env_params =
                              shared_get_environmental_parameters(creq[r].soil_type,
                                                                  creq[r].custom_params)]]
    /\ UNCHANGED <<single, catalog_crops, catalog_ranges>>

\* the locals of call c after lines 151-164 of recommend_crops
AfterResolution(c) ==
    LET passed == IF c.kind = "recommend" THEN c.custom_params ELSE c.gcr_env_params
        resolved == shared_get_environmental_parameters(c.soil_type, passed)
    IN  IF CropInputRaises(resolved)
        THEN [c EXCEPT !.pc = IF c.kind = "recommend" THEN "done" ELSE "gcr_return",
                       !.env_params = resolved, !.raised = TRUE,
                       !.recommendations = <<>>]
        ELSE [c EXCEPT !.pc = "predict_proba",
                       !.env_params = resolved, !.crop_input = CropInput(resolved)]

conc_recommend_crops_merging_in_place(r) ==
    /\ creq[r].pc = "recommend_crops"
    /\ creq' = [creq EXCEPT ![r] = AfterResolution(@)]
    /\ catalog_ranges' =
          IF /\ creq[r].soil_type \in DOMAIN catalog_ranges
             /\ Truthy(creq[r].custom_params)
             /\ creq'[r].env_params.t = "dict"
          THEN [catalog_ranges EXCEPT ![creq[r].soil_type] =
                   [k \in DOMAIN @ |->
                       IF k \in DOMAIN creq'[r].env_params.d
                       THEN <<creq'[r].env_params.d[k].v, creq'[r].env_params.d[k].v>>
                       ELSE @[k]]]
          ELSE catalog_ranges
    /\ UNCHANGED <<single, catalog_crops>>

conc_recommend_crops(r) ==
    /\ creq[r].pc = "recommend_crops"
    /\ creq' = [creq EXCEPT ![r] = AfterResolution(@)]
    /\ UNCHANGED <<single, catalog_crops, catalog_ranges>>

conc_predict_proba(r) ==
    /\ creq[r].pc = "predict_proba"
    /\ \/ creq' = [creq EXCEPT ![r] =
                [creq[r] EXCEPT !.pc = IF creq[r].kind = "recommend" THEN "done" ELSE "gcr_return",
                          !.raised = TRUE, !.recommendations = <<>>]]
       \/ \E probs \in ConcDistributions :
             creq' = [creq EXCEPT ![r] =
                [creq[r] EXCEPT !.pc = "rank", !.crop_probabilities = probs]]
    /\ UNCHANGED <<single, catalog_crops, catalog_ranges>>

conc_rank_crops(r) ==
    /\ creq[r].pc = "rank"
    /\ creq' = [creq EXCEPT ![r] =
           [creq[r] EXCEPT !.pc = IF creq[r].kind = "recommend" THEN "done" ELSE "gcr_return",
                     !.recommendations =
                         shared_rank(creq[r].soil_type, creq[r].crop_probabilities, creq[r].top_n)]]
    /\ UNCHANGED <<single, catalog_crops, catalog_ranges>>

conc_gcr_return(r) ==
    /\ creq[r].pc = "gcr_return"
    /\ creq' = [creq EXCEPT ![r] =
           [creq[r] EXCEPT !.pc = "done",
                     !.result =
                         [keys |-> {"soil_type", "soil_confidence",
                                    "environmental_parameters", "recommendations",
                                    "soil_specific_crops"},
                          error |-> "", soil_type |-> creq[r].soil_type,
                          soil_confidence |-> creq[r].soil_confidence,
                          environmental_parameters |-> creq[r].gcr_env_params,
                          recommendations |-> creq[r].recommendations,
                          soil_specific_crops |-> SharedCropsGet(creq[r].soil_type)]]]
    /\ UNCHANGED <<single, catalog_crops, catalog_ranges>>

ConcNext ==
    \E r \in Requests :
        \/ conc_call(r)
        \/ conc_classify_soil(r)
        \/ conc_gcr_check(r)
        \/ conc_recommend_crops(r)
        \/ conc_predict_proba(r)
        \/ conc_rank_crops(r)
        \/ conc_gcr_return(r)

ConcInit == models_loaded = TRUE /\ Fresh /\ SharedFresh

ConcSpec == ConcInit /\ [][ConcNext]_vars

\* ================================================================ claims
SevenVariables == {"N", "P", "K", "temperature", "humidity", "pH", "rainfall"}

SuitableFor(st) == {SoilCropsGet(st)[i] : i \in 1..Len(SoilCropsGet(st))}

\* params holds exactly the seven variables, each the midpoint of st's range
IsMidpointSet(params, st) ==
    /\ params.t = "dict"
    /\ DOMAIN params.d = SevenVariables
    /\ \A k \in SevenVariables :
          /\ params.d[k].num
          /\ 2 * params.d[k].v =
                soil_environmental_ranges[st][k][1] + soil_environmental_ranges[st][k][2]

\* C1: for each of the 8 soil categories, resolution without overrides yields
\* exactly the seven variables, each the midpoint (min+max)/2 of its catalog
\* range (27.5 degrees and pH 7.0 for Alluvial Soil, pH 7.75 for Black Soil).
C1_DefaultsAreMidpoints ==
    ("resolve" \in calls /\ ~Truthy(custom_params) /\ soil_type \in SoilClassSet) =>
        LET resolved == IF op = "complete" THEN gcr_env_params ELSE env_params
        IN  /\ IsMidpointSet(resolved, soil_type)
            /\ soil_type = "Alluvial Soil" =>
                  resolved.d["temperature"].v = 2750 /\ resolved.d["pH"].v = 700
            /\ soil_type = "Black Soil" => resolved.d["pH"].v = 775

C1_Witness ==
    /\ op = "recommend" /\ "resolve" \in calls
    /\ environmental_params = RawAbsent
    /\ soil_type = "Peat Soil"
    /\ env_params.d["N"].v = 10000 /\ env_params.d["pH"].v = 500

\* C2: every entry recommend_crops produces carries the classifier's
\* probability of its crop, a score of 1.5 times that probability when the
\* crop is in the soil's suitable list and the probability itself otherwise,
\* and a soil_suitable flag that is true exactly when the crop is in the list.
C2_BoostInvariant ==
    "rank" \in calls =>
        \A i \in 1..Len(recommendations) :
            LET e == recommendations[i]
                suitable == e.crop \in SuitableFor(soil_type)
            IN  /\ \E j \in 1..Len(crop_names) :
                      crop_names[j] = e.crop /\ crop_probabilities[j] = e.original_probability
                /\ e.soil_suitable = suitable
                /\ suitable => 10 * e.score = 15 * BoostDen * e.original_probability
                /\ ~suitable => e.score = BoostDen * e.original_probability

C2_Witness ==
    /\ "rank" \in calls
    /\ \E i, j \in 1..Len(recommendations) :
          /\ recommendations[i].soil_suitable
          /\ recommendations[i].original_probability > 0
          /\ recommendations[i].score > BoostDen * recommendations[i].original_probability
          /\ ~recommendations[j].soil_suitable
          /\ recommendations[j].original_probability > 0

\* the adjusted score of the k-th crop of the vocabulary
AdjustedScoreOf(k) ==
    IF crop_names[k] \in SuitableFor(soil_type)
    THEN 3 * crop_probabilities[k] ELSE 2 * crop_probabilities[k]

\* C3: for a positive top_n the result holds at most top_n entries, in
\* descending order of adjusted score, and no crop left out scores strictly
\* more than a crop that is in it.
C3_TopNDescending ==
    ("rank" \in calls /\ top_n > 0) =>
        /\ Len(recommendations) <= top_n
        /\ \A i, j \in 1..Len(recommendations) :
              i < j => recommendations[i].score >= recommendations[j].score
        /\ \A k \in 1..Len(crop_names) :
              (\A i \in 1..Len(recommendations) : recommendations[i].crop # crop_names[k]) =>
                  \A i \in 1..Len(recommendations) :
                      AdjustedScoreOf(k) <= recommendations[i].score

C3_Witness ==
    /\ "rank" \in calls
    /\ top_n = 2 /\ Len(recommendations) = 2
    /\ recommendations[1].score > recommendations[2].score
    /\ recommendations[1].crop = crop_names[3]
    /\ recommendations[2].crop = crop_names[2]
    /\ crop_probabilities[1] > 0

WellFormedOverride(cp) ==
    /\ cp.t = "dict"
    /\ SevenVariables \subseteq DOMAIN cp.d
    /\ \A k \in SevenVariables : cp.d[k].num

\* C4: a well-formed override set with all seven numeric variables is what
\* resolution returns, for any soil category, and its values reach the crop
\* classifier in the order N, P, K, temperature, humidity, pH, rainfall:
\* the set of Scenario C becomes [75, 45, 50, 28, 75, 6.8, 180].
C4_FullOverrideForwarded ==
    WellFormedOverride(custom_params) =>
        /\ (op = "complete" /\ "resolve" \in calls) => gcr_env_params = custom_params
        /\ "crop_input" \in calls =>
              /\ env_params = custom_params
              /\ "predict_proba" \in calls \/ pc = "predict_proba"
              /\ crop_input = <<custom_params.d["N"], custom_params.d["P"],
                                custom_params.d["K"], custom_params.d["temperature"],
                                custom_params.d["humidity"], custom_params.d["pH"],
                                custom_params.d["rainfall"]>>
        /\ ("predict_proba" \in calls /\ environmental_params = RawFull) =>
              [i \in 1..Len(crop_input) |-> crop_input[i].v]
                  = <<7500, 4500, 5000, 2800, 7500, 680, 18000>>

C4_Witness ==
    /\ "predict_proba" \in calls
    /\ environmental_params = RawFull
    /\ soil_type = "Alluvial Soil"
    /\ custom_params = Dict(FullOverride)
    /\ crop_input[6].v = 680 /\ crop_input[7].v = 18000

\* C5: when the soil classifier reports (None, 0.0),
\* get_comprehensive_recommendation returns the error result (soil category
\* absent, confidence 0, no recommendations) without raising and without
\* resolving parameters or calling the crop classifier.
C5_SoilFailureReported ==
    (op = "complete" /\ "classify_soil" \in calls /\ soil_type = NoneStr
        /\ pc # "gcr_check") =>
        /\ pc \in {"unlink", "respond", "except", "finally", "responded"}
        /\ result.keys = {"error", "soil_type", "soil_confidence", "recommendations"}
        /\ result.soil_type = NoneStr
        /\ result.soil_confidence = 0
        /\ result.recommendations = <<>>
        /\ calls \cap {"resolve", "crop_input", "predict_proba", "rank"} = {}
        /\ pc \in {"unlink", "respond"} => exc = NoneStr

C5_Witness ==
    /\ op = "complete" /\ pc = "unlink"
    /\ "classify_soil" \in calls /\ soil_type = NoneStr
    /\ "error" \in result.keys

\* C6: a direct request for a soil category outside the catalog, without
\* overrides, ends in an error outcome: no empty parameter set reaches the
\* feature vector and no successful response is produced.
C6_UnknownSoilIsError ==
    (op = "recommend" /\ ~InSeq(soil_type, soil_classes) /\ ~Truthy(custom_params)) =>
        /\ "crop_input" \in calls => DOMAIN env_params.d # {}
        /\ pc = "responded" => ~response.success

IncompleteOverride(cp) ==
    Truthy(cp) /\ cp.t = "dict" /\ ~(SevenVariables \subseteq DOMAIN cp.d)

\* C7: an override set that lacks one of the seven variables is never the
\* resolved parameter set: it neither reaches the construction of the feature
\* vector nor appears as the environmental parameters of a returned report.
C7_IncompleteOverrideNeverHonored ==
    IncompleteOverride(custom_params) =>
        /\ "crop_input" \in calls => env_params # custom_params
        /\ "environmental_parameters" \in result.keys =>
              result.environmental_parameters # custom_params

\* C8: when the crop classifier raises, the request fails: the report carries
\* an error and the caller never gets a successful response.
C8_CropModelFailureFailsRequest ==
    "predict_raised" \in calls =>
        /\ "soil_type" \in result.keys => "error" \in result.keys
        /\ pc = "responded" => ~response.success

\* C9: a complete-analysis request whose soil classification failed is
\* answered with a failure, never with success: true.
C9_SoilFailureIsFailureResponse ==
    (op = "complete" /\ "classify_soil" \in calls /\ soil_type = NoneStr
        /\ pc = "responded") =>
        /\ ~response.success
        /\ response.soil_type = NoneStr

\* C10: once the upload has been staged, the temporary file is gone by the
\* time the response is produced, whatever the exit path.
C10_TempFileReleased ==
    (pc = "responded" /\ "stage" \in calls) => ~tmp_exists

MalformedRaw == {RawMalformed, RawNonNumeric, RawList}

\* C11: a malformed override (unparseable JSON, a non-numeric value, a JSON
\* value that is not a mapping) is answered with HTTP 400 on the recommend
\* and the complete-analysis endpoints, and so is a soil type that the
\* recommend endpoint's validation rejects.
C11_MalformedOverrideIsClientError ==
    (pc = "responded" /\ models_loaded) =>
        /\ (op = "recommend" /\ environmental_params \in MalformedRaw
               /\ (app = "api" => InSeq(soil_type, soil_classes))) =>
              response.status = 400
        /\ (op = "complete" /\ environmental_params \in MalformedRaw
               /\ "stage" \in calls) =>
              response.status = 400
        /\ (op = "recommend" /\ app = "api" /\ ~InSeq(soil_type, soil_classes)) =>
              response.status = 400

Max0(n) == IF n > 0 THEN n ELSE 0

\* C14: recommend_crops never returns more than max(top_n, 0) entries; a
\* negative top_n in particular does not yield all crops but the last |top_n|.
C14_TopNPositiveOrClamped ==
    "rank" \in calls =>
        /\ Len(recommendations) <= Max0(top_n)
        /\ top_n < 0 => Len(recommendations) # Len(crop_names) + top_n

\* the position of a crop in the classifier's vocabulary
VocabularyIndex(crop) == CHOOSE k \in 1..Len(crop_names) : crop_names[k] = crop

\* C15: the ordered output is determined by the soil category, the
\* distribution and top_n: it is the leading part of the one arrangement
\* of all crops by descending adjusted score in which crops of equal score
\* (a boosted and an unboosted one included) keep the vocabulary order.
C15_TiesKeepVocabularyOrder ==
    "rank" \in calls =>
        /\ \A i, j \in 1..Len(recommendations) :
              i < j =>
                  \/ recommendations[i].score > recommendations[j].score
                  \/ /\ recommendations[i].score = recommendations[j].score
                     /\ VocabularyIndex(recommendations[i].crop)
                            < VocabularyIndex(recommendations[j].crop)
        /\ \A k \in 1..Len(crop_names) :
              (\A i \in 1..Len(recommendations) : recommendations[i].crop # crop_names[k]) =>
                  \A i \in 1..Len(recommendations) :
                      \/ AdjustedScoreOf(k) < recommendations[i].score
                      \/ /\ AdjustedScoreOf(k) = recommendations[i].score
                         /\ VocabularyIndex(recommendations[i].crop) < k
        /\ \A i \in 1..Len(recommendations) :
              recommendations[i].score
                  = AdjustedScoreOf(VocabularyIndex(recommendations[i].crop))
        /\ Len(recommendations) =
              (IF top_n >= Len(crop_names) THEN Len(crop_names)
               ELSE IF top_n >= 0 THEN top_n
               ELSE Max0(Len(crop_names) + top_n))

\* an unboosted crop and a later, boosted crop with the same adjusted score
C15_Witness ==
    /\ "rank" \in calls
    /\ Len(recommendations) >= 2
    /\ recommendations[1].score = recommendations[2].score
    /\ recommendations[1].score > 0
    /\ ~recommendations[1].soil_suitable
    /\ recommendations[2].soil_suitable
    /\ recommendations[1].crop = crop_names[2]
    /\ recommendations[2].crop = crop_names[3]

\* C16: the environmental_parameters of every report without an error key
\* are the set the feature vector was read from: the resolution repeated
\* inside recommend_crops returns the set it was given, whatever the soil
\* category and the override.
C16_ReportedParametersAreUsed ==
    (op = "complete" /\ "environmental_parameters" \in result.keys) =>
        /\ "error" \notin result.keys
        /\ result.environmental_parameters = env_params
        /\ gcr_env_params = env_params
        /\ "predict_proba" \in calls =>
              crop_input = [i \in 1..Len(FeatureOrder) |->
                               result.environmental_parameters.d[FeatureOrder[i]]]

C16_Witness ==
    /\ op = "complete" /\ "environmental_parameters" \in result.keys
    /\ environmental_params = RawFull
    /\ "rank" \in calls
    /\ result.environmental_parameters = Dict(FullOverride)
    /\ result.environmental_parameters # get_environmental_parameters(soil_type, NoneVal)

\* C13: every request completes, also when a model call stalls: the
\* stalled call is turned into a failure result within its time budget.
C13_EveryRequestCompletes ==
    (pc \in {"classify_soil", "predict_proba"}) ~> (pc = "responded")

\* what call c returns when it runs alone, given the answers the two
\* models gave it
AloneRecommendations(c) ==
    LET passed == get_environmental_parameters(c.soil_type, c.custom_params)
    IN  IF c.raised \/ CropInputRaises(passed) THEN <<>>
        ELSE Rank(c.soil_type, c.crop_probabilities, c.top_n)

AloneResult(c) ==
    IF c.soil_type = NoneStr THEN gcr_error_result
    ELSE gcr_report(c.soil_type, c.soil_confidence,
                    get_environmental_parameters(c.soil_type, c.custom_params),
                    AloneRecommendations(c))

\* C12: however the calls on the shared recommender interleave, each returns
\* what it would return when run alone, and the catalog (suitable crops and
\* ranges) stays as constructed.
C12_ConcurrentCallsIndependent ==
    /\ catalog_crops = soil_crop_mapping
    /\ catalog_ranges = soil_environmental_ranges
    /\ \A r \in Requests :
          creq[r].pc = "done" =>
              IF creq[r].kind = "recommend"
              THEN creq[r].recommendations = AloneRecommendations(creq[r])
              ELSE creq[r].result = AloneResult(creq[r])

\* two overlapping calls for the same soil, one with an override and one
\* without, both returned with a ranking
C12_Witness ==
    /\ creq[1].pc = "done" /\ creq[2].pc = "done"
    /\ creq[2].overlapped
    /\ creq[1].soil_type = "Peat Soil" /\ creq[2].soil_type = "Peat Soil"
    /\ creq[1].custom_params = Dict(FullOverride)
    /\ creq[2].custom_params = NoneVal
    /\ creq[1].kind = "recommend" /\ creq[2].kind = "complete"
    /\ Len(creq[1].recommendations) = 2
    /\ Len(creq[2].result.recommendations) = 3

====
